---- MODULE Spec2Model ----
(***************************************************************************)
(* py-mcsv: the field descriptions of mcsv/field_descriptions.py (the      *)
(* eleven FieldDescription classes, their canonical instances and          *)
(* data_type_to_field_description), the row mapping of mcsv/writer.py and  *)
(* its context managers open_csv_writer / open_dict_csv_writer.            *)
(*                                                                         *)
(* Python values are modelled as follows:                                  *)
(*   - a str is the sequence of its characters (one-character strings);    *)
(*   - an Optional[X] is the empty set (None) or the singleton {x};        *)
(*   - an object is a heap cell: heap[id] is the record of its attributes, *)
(*     with the class name in cls; a reference to an object is an          *)
(*     Optional id;                                                        *)
(*   - a call that raises returns a record with raised = TRUE.             *)
(***************************************************************************)
EXTENDS Integers, Sequences, FiniteSets, TLC

VARIABLES
    pc,        \* position of the module initialisation (statement number), or Done
    instance,  \* the INSTANCE class attribute of every description class
    heap,      \* the FieldDescription objects created so far
    call,      \* the latest call made by the client
    ret,       \* what that call returned (value: a description or None;
               \* processor; data_type; type), or that it raised (error)
    out,       \* the text written to the stream of the latest call (render's `out`)
    data,      \* the MetaCSVData handed to MetaCSVWriterFactory
    wpc,       \* position of the writer client
    dest,      \* the CSV destination csv.writer writes to, once obtained
    processors,\* the processors dict captured by map_row
    written,   \* the rows handed to the underlying csv writer, in order
    meta,      \* the sidecar meta file: its state and what was written to it
    csvfile    \* the CSV destination of _open_writer: unopened, open or closed

vars == <<pc, instance, heap, call, ret, out, data, wpc, dest, processors, written,
          meta, csvfile>>

---------------------------------------------------------------------------
(* Python values *)

None == {}
Some(v) == {v}
Get(o) == CHOOSE v \in o : TRUE

\* Truth value of an Optional[bool] in a condition: None and False are falsy.
Truthy(o) == o = Some(TRUE)

s_empty == << >>
s_slash == <<"/">>
s_dot == <<".">>
s_comma == <<",">>
s_percent == <<"%">>
s_dollar == <<"$">>
s_text == <<"t", "e", "x", "t">>
s_boolean == <<"b", "o", "o", "l", "e", "a", "n">>
s_integer == <<"i", "n", "t", "e", "g", "e", "r">>
s_float == <<"f", "l", "o", "a", "t">>
s_decimal == <<"d", "e", "c", "i", "m", "a", "l">>
s_currency == <<"c", "u", "r", "r", "e", "n", "c", "y">>
s_percentage == <<"p", "e", "r", "c", "e", "n", "t", "a", "g", "e">>
s_date == <<"d", "a", "t", "e">>
s_datetime == <<"d", "a", "t", "e", "t", "i", "m", "e">>
s_pre == <<"p", "r", "e">>
s_post == <<"p", "o", "s", "t">>
s_true == <<"t", "r", "u", "e">>
s_false == <<"f", "a", "l", "s", "e">>
s_iso_date == <<"y", "y", "y", "y", "-", "M", "M", "-", "d", "d">>
s_iso_datetime == s_iso_date \o <<"'", "T", "'", "H", "H", ":", "m", "m", ":", "s", "s">>
s_fr == <<"f", "r">>
s_null == <<"N", "U", "L", "L">>

---------------------------------------------------------------------------
(* mcsv.util *)

none_to_empty(value) == IF value = None THEN s_empty ELSE Get(value)

RECURSIVE join(_, _)
join(sep, strings) ==
    IF Len(strings) = 0 THEN s_empty
    ELSE IF Len(strings) = 1 THEN strings[1]
    ELSE strings[1] \o sep \o join(sep, Tail(strings))

\* A text stream: what has been written, and whether the writing call raised.
Stream(text) == [text |-> text, raised |-> FALSE]
write(o, s) == [o EXCEPT !.text = @ \o s]
AttributeError(o) == [o EXCEPT !.raised = TRUE]

util_render(o, strings) == write(o, join(s_slash, strings))

---------------------------------------------------------------------------
(* DataType and the description classes *)

DataTypes ==
    {"BOOLEAN", "CURRENCY_INTEGER", "CURRENCY_DECIMAL", "DATE", "DATETIME",
     "DECIMAL", "FLOAT", "INTEGER", "PERCENTAGE_DECIMAL", "PERCENTAGE_FLOAT",
     "TEXT"}

Classes ==
    {"BooleanFieldDescription", "CurrencyIntegerFieldDescription",
     "CurrencyDecimalFieldDescription", "DateFieldDescription",
     "DatetimeFieldDescription", "DecimalFieldDescription",
     "FloatFieldDescription", "IntegerFieldDescription",
     "PercentageDecimalFieldDescription", "PercentageFloatFieldDescription",
     "TextFieldDescription"}

BooleanFieldDescription(true_word, false_word) ==
    [cls |-> "BooleanFieldDescription",
     _true_word |-> true_word, _false_word |-> false_word]

CurrencyDecimalFieldDescription(pre, currency, decimal_description) ==
    [cls |-> "CurrencyDecimalFieldDescription",
     _pre |-> pre, _currency |-> currency,
     _decimal_description |-> decimal_description]

CurrencyIntegerFieldDescription(pre, currency, integer_description) ==
    [cls |-> "CurrencyIntegerFieldDescription",
     _pre |-> pre, _currency |-> currency,
     _integer_description |-> integer_description]

DateFieldDescription(date_format, locale_name) ==
    [cls |-> "DateFieldDescription",
     _date_format |-> date_format, _locale_name |-> locale_name]

DatetimeFieldDescription(date_format, locale_name) ==
    [cls |-> "DatetimeFieldDescription",
     _date_format |-> date_format, _locale_name |-> locale_name]

DecimalFieldDescription(thousand_sep, decimal_sep) ==
    [cls |-> "DecimalFieldDescription",
     _thousand_sep |-> thousand_sep, _decimal_sep |-> decimal_sep]

FloatFieldDescription(thousand_sep, decimal_sep) ==
    [cls |-> "FloatFieldDescription",
     _thousand_sep |-> thousand_sep, _decimal_sep |-> decimal_sep]

IntegerFieldDescription(thousand_sep) ==
    [cls |-> "IntegerFieldDescription", _thousand_sep |-> thousand_sep]

PercentageFloatFieldDescription(pre, sign, float_description) ==
    [cls |-> "PercentageFloatFieldDescription",
     _pre |-> pre, _sign |-> sign, _float_description |-> float_description]

PercentageDecimalFieldDescription(pre, sign, decimal_description) ==
    [cls |-> "PercentageDecimalFieldDescription",
     _pre |-> pre, _sign |-> sign, _decimal_description |-> decimal_description]

TextFieldDescription == [cls |-> "TextFieldDescription"]

\* The attribute of a composite description that holds its wrapped description.
IsCurrency(self) ==
    self.cls \in {"CurrencyIntegerFieldDescription", "CurrencyDecimalFieldDescription"}
IsPercentage(self) ==
    self.cls \in {"PercentageFloatFieldDescription", "PercentageDecimalFieldDescription"}
IsComposite(self) == IsCurrency(self) \/ IsPercentage(self)
Wrapped(self) ==
    CASE self.cls = "CurrencyIntegerFieldDescription" -> self._integer_description
      [] self.cls = "PercentageFloatFieldDescription" -> self._float_description
      [] OTHER -> self._decimal_description

---------------------------------------------------------------------------
(* render *)

RECURSIVE FieldDescription_render(_, _, _)

BooleanFieldDescription_render(self, o) ==
    IF self._false_word # s_empty
    THEN util_render(o, <<s_boolean, self._true_word, self._false_word>>)
    ELSE util_render(o, <<s_boolean, self._true_word>>)

\* The render of CurrencyDecimalFieldDescription without its out.write("/").
CurrencyDecimalFieldDescription_render_no_slash(h, self, o) ==
    LET pre == none_to_empty(Some(IF Truthy(self._pre) THEN s_pre ELSE s_post))
        currency == none_to_empty(self._currency)
        o1 == util_render(o, <<s_currency, pre, currency>>)
    IN FieldDescription_render(h, self._decimal_description, o1)

CurrencyDecimalFieldDescription_render(h, self, o) ==
    LET pre == none_to_empty(Some(IF Truthy(self._pre) THEN s_pre ELSE s_post))
        currency == none_to_empty(self._currency)
        o1 == util_render(o, <<s_currency, pre, currency>>)
        o2 == write(o1, s_slash)
    IN FieldDescription_render(h, self._decimal_description, o2)

CurrencyIntegerFieldDescription_render(h, self, o) ==
    LET pre == none_to_empty(Some(IF Truthy(self._pre) THEN s_pre ELSE s_post))
        currency == none_to_empty(self._currency)
        o1 == util_render(o, <<s_currency, pre, currency>>)
        o2 == write(o1, s_slash)
    IN FieldDescription_render(h, self._integer_description, o2)

DateFieldDescription_render(self, o) ==
    IF self._locale_name = None
    THEN util_render(o, <<s_date, self._date_format>>)
    ELSE util_render(o, <<s_date, self._date_format, Get(self._locale_name)>>)

DatetimeFieldDescription_render(self, o) ==
    IF self._locale_name = None
    THEN util_render(o, <<s_datetime, self._date_format>>)
    ELSE util_render(o, <<s_datetime, self._date_format, Get(self._locale_name)>>)

DecimalFieldDescription_render(self, o) ==
    util_render(o, <<s_decimal, none_to_empty(self._thousand_sep), self._decimal_sep>>)

FloatFieldDescription_render(self, o) ==
    util_render(o, <<s_float, none_to_empty(self._thousand_sep), self._decimal_sep>>)

IntegerFieldDescription_render(self, o) ==
    IF self._thousand_sep = None
    THEN write(o, s_integer)
    ELSE util_render(o, <<s_integer, none_to_empty(self._thousand_sep)>>)

PercentageFloatFieldDescription_render(h, self, o) ==
    LET pre == none_to_empty(Some(IF Truthy(self._pre) THEN s_pre ELSE s_post))
        o1 == util_render(o, <<s_percentage, pre, none_to_empty(self._sign)>>)
        o2 == write(o1, s_slash)
    IN FieldDescription_render(h, self._float_description, o2)

PercentageDecimalFieldDescription_render(h, self, o) ==
    LET pre == none_to_empty(Some(IF Truthy(self._pre) THEN s_pre ELSE s_post))
        o1 == util_render(o, <<s_percentage, pre, none_to_empty(self._sign)>>)
        o2 == write(o1, s_slash)
    IN FieldDescription_render(h, self._decimal_description, o2)

TextFieldDescription_render(self, o) == write(o, s_text)

\* ref.render(o): the method of the class of the object ref refers to; calling
\* it on None raises AttributeError and writes nothing more.
FieldDescription_render(h, ref, o) ==
    IF ref = None THEN AttributeError(o)
    ELSE LET self == h[Get(ref)] IN
         CASE self.cls = "BooleanFieldDescription" -> BooleanFieldDescription_render(self, o)
           [] self.cls = "CurrencyDecimalFieldDescription" -> CurrencyDecimalFieldDescription_render(h, self, o)
           [] self.cls = "CurrencyIntegerFieldDescription" -> CurrencyIntegerFieldDescription_render(h, self, o)
           [] self.cls = "DateFieldDescription" -> DateFieldDescription_render(self, o)
           [] self.cls = "DatetimeFieldDescription" -> DatetimeFieldDescription_render(self, o)
           [] self.cls = "DecimalFieldDescription" -> DecimalFieldDescription_render(self, o)
           [] self.cls = "FloatFieldDescription" -> FloatFieldDescription_render(self, o)
           [] self.cls = "IntegerFieldDescription" -> IntegerFieldDescription_render(self, o)
           [] self.cls = "PercentageFloatFieldDescription" -> PercentageFloatFieldDescription_render(h, self, o)
           [] self.cls = "PercentageDecimalFieldDescription" -> PercentageDecimalFieldDescription_render(h, self, o)
           [] OTHER -> TextFieldDescription_render(self, o)

---------------------------------------------------------------------------
(* to_field_processor: the processors are the objects of mcsv.field_processors,
   known here by their class and the arguments they are constructed with *)

\* The outcome of a call: the value returned, or the exception raised.
Return(value) == [raised |-> FALSE, value |-> value]
Raise(error) == [raised |-> TRUE, error |-> error]

BooleanFieldProcessor(true_word, false_word, null_value) ==
    [cls |-> "BooleanFieldProcessor", true_word |-> true_word,
     false_word |-> false_word, null_value |-> null_value]
CurrencyFieldProcessor(pre, currency, processor, null_value) ==
    [cls |-> "CurrencyFieldProcessor", pre |-> pre, currency |-> currency,
     processor |-> processor, null_value |-> null_value]
DateAndDatetimeFieldProcessor(fromtimestamp, date_format, locale_name, null_value) ==
    [cls |-> "DateAndDatetimeFieldProcessor", fromtimestamp |-> fromtimestamp,
     date_format |-> date_format, locale_name |-> locale_name,
     null_value |-> null_value]
DecimalFieldProcessor(thousand_sep, decimal_sep, null_value) ==
    [cls |-> "DecimalFieldProcessor", thousand_sep |-> thousand_sep,
     decimal_sep |-> decimal_sep, null_value |-> null_value]
FloatFieldProcessor(thousand_sep, decimal_sep, null_value) ==
    [cls |-> "FloatFieldProcessor", thousand_sep |-> thousand_sep,
     decimal_sep |-> decimal_sep, null_value |-> null_value]
IntegerFieldProcessor(thousand_sep, null_value) ==
    [cls |-> "IntegerFieldProcessor", thousand_sep |-> thousand_sep,
     null_value |-> null_value]
PercentageFieldProcessor(pre, sign, processor, null_value) ==
    [cls |-> "PercentageFieldProcessor", pre |-> pre, sign |-> sign,
     processor |-> processor, null_value |-> null_value]
TextFieldProcessor(null_value) ==
    [cls |-> "TextFieldProcessor", null_value |-> null_value]

RECURSIVE FieldDescription_to_field_processor(_, _, _)

BooleanFieldDescription_to_field_processor(self, null_value) ==
    Return(BooleanFieldProcessor(self._true_word, self._false_word, null_value))

CurrencyDecimalFieldDescription_to_field_processor(h, self, null_value) ==
    LET processor ==
            FieldDescription_to_field_processor(h, self._decimal_description, null_value)
    IN IF processor.raised THEN processor
       ELSE Return(CurrencyFieldProcessor(self._pre, self._currency,
                                          processor.value, null_value))

CurrencyIntegerFieldDescription_to_field_processor(h, self, null_value) ==
    LET processor ==
            FieldDescription_to_field_processor(h, self._integer_description, null_value)
    IN IF processor.raised THEN processor
       ELSE Return(CurrencyFieldProcessor(self._pre, self._currency,
                                          processor.value, null_value))

DateFieldDescription_to_field_processor(self, null_value) ==
    Return(DateAndDatetimeFieldProcessor("date.fromtimestamp", self._date_format,
                                         self._locale_name, null_value))

DatetimeFieldDescription_to_field_processor(self, null_value) ==
    Return(DateAndDatetimeFieldProcessor("datetime.fromtimestamp", self._date_format,
                                         self._locale_name, null_value))

DecimalFieldDescription_to_field_processor(self, null_value) ==
    Return(DecimalFieldProcessor(self._thousand_sep, self._decimal_sep, null_value))

FloatFieldDescription_to_field_processor(self, null_value) ==
    Return(FloatFieldProcessor(self._thousand_sep, self._decimal_sep, null_value))

IntegerFieldDescription_to_field_processor(self, null_value) ==
    Return(IntegerFieldProcessor(self._thousand_sep, null_value))

PercentageFloatFieldDescription_to_field_processor(h, self, null_value) ==
    LET processor ==
            FieldDescription_to_field_processor(h, self._float_description, null_value)
    IN IF processor.raised THEN processor
       ELSE Return(PercentageFieldProcessor(self._pre, self._sign,
                                            processor.value, null_value))

\* A to_field_processor that builds the wrapped processor without the table's
\* null value (with the empty token instead).
PercentageDecimalFieldDescription_to_field_processor_inner_null(h, self, null_value) ==
    LET processor ==
            FieldDescription_to_field_processor(h, self._decimal_description, s_empty)
    IN IF processor.raised THEN processor
       ELSE Return(PercentageFieldProcessor(self._pre, self._sign,
                                            processor.value, null_value))

PercentageDecimalFieldDescription_to_field_processor(h, self, null_value) ==
    LET processor ==
            FieldDescription_to_field_processor(h, self._decimal_description, null_value)
    IN IF processor.raised THEN processor
       ELSE Return(PercentageFieldProcessor(self._pre, self._sign,
                                            processor.value, null_value))

TextFieldDescription_to_field_processor(self, null_value) ==
    Return(TextFieldProcessor(null_value))

\* ref.to_field_processor(null_value); on None it raises AttributeError.
FieldDescription_to_field_processor(h, ref, null_value) ==
    IF ref = None THEN Raise("AttributeError")
    ELSE LET self == h[Get(ref)] IN
         CASE self.cls = "BooleanFieldDescription" -> BooleanFieldDescription_to_field_processor(self, null_value)
           [] self.cls = "CurrencyDecimalFieldDescription" -> CurrencyDecimalFieldDescription_to_field_processor(h, self, null_value)
           [] self.cls = "CurrencyIntegerFieldDescription" -> CurrencyIntegerFieldDescription_to_field_processor(h, self, null_value)
           [] self.cls = "DateFieldDescription" -> DateFieldDescription_to_field_processor(self, null_value)
           [] self.cls = "DatetimeFieldDescription" -> DatetimeFieldDescription_to_field_processor(self, null_value)
           [] self.cls = "DecimalFieldDescription" -> DecimalFieldDescription_to_field_processor(self, null_value)
           [] self.cls = "FloatFieldDescription" -> FloatFieldDescription_to_field_processor(self, null_value)
           [] self.cls = "IntegerFieldDescription" -> IntegerFieldDescription_to_field_processor(self, null_value)
           [] self.cls = "PercentageFloatFieldDescription" -> PercentageFloatFieldDescription_to_field_processor(h, self, null_value)
           [] self.cls = "PercentageDecimalFieldDescription" -> PercentageDecimalFieldDescription_to_field_processor(h, self, null_value)
           [] OTHER -> TextFieldDescription_to_field_processor(self, null_value)

---------------------------------------------------------------------------
(* get_data_type, get_python_type *)

get_data_type(self) ==
    CASE self.cls = "BooleanFieldDescription" -> "BOOLEAN"
      [] self.cls = "CurrencyDecimalFieldDescription" -> "CURRENCY_DECIMAL"
      [] self.cls = "CurrencyIntegerFieldDescription" -> "CURRENCY_INTEGER"
      [] self.cls = "DateFieldDescription" -> "DATE"
      [] self.cls = "DatetimeFieldDescription" -> "DATETIME"
      [] self.cls = "DecimalFieldDescription" -> "DECIMAL"
      [] self.cls = "FloatFieldDescription" -> "FLOAT"
      [] self.cls = "IntegerFieldDescription" -> "INTEGER"
      [] self.cls = "PercentageFloatFieldDescription" -> "PERCENTAGE_FLOAT"
      [] self.cls = "PercentageDecimalFieldDescription" -> "PERCENTAGE_DECIMAL"
      [] OTHER -> "TEXT"

get_python_type(self) ==
    CASE self.cls = "BooleanFieldDescription" -> "bool"
      [] self.cls = "CurrencyDecimalFieldDescription" -> "Decimal"
      [] self.cls = "CurrencyIntegerFieldDescription" -> "int"
      [] self.cls = "DateFieldDescription" -> "date"
      [] self.cls = "DatetimeFieldDescription" -> "datetime"
      [] self.cls = "DecimalFieldDescription" -> "Decimal"
      [] self.cls = "FloatFieldDescription" -> "float"
      [] self.cls = "IntegerFieldDescription" -> "int"
      [] self.cls = "PercentageFloatFieldDescription" -> "float"
      [] self.cls = "PercentageDecimalFieldDescription" -> "Decimal"
      [] OTHER -> "str"

---------------------------------------------------------------------------
(* The canonical forms and data_type_to_field_description *)

\* The classes in the order in which the module assigns their INSTANCE.
CanonicalOrder ==
    <<"BooleanFieldDescription", "CurrencyIntegerFieldDescription",
      "CurrencyDecimalFieldDescription", "DateFieldDescription",
      "DatetimeFieldDescription", "DecimalFieldDescription",
      "FloatFieldDescription", "IntegerFieldDescription",
      "PercentageDecimalFieldDescription", "PercentageFloatFieldDescription",
      "TextFieldDescription">>

Done == Len(CanonicalOrder) + 1

\* The object the module constructs for class c; the constructor arguments are
\* evaluated when the assignment runs, with the class attributes inst of then.
CanonicalForm(c, inst) ==
    CASE c = "BooleanFieldDescription" -> BooleanFieldDescription(s_true, s_false)
      [] c = "CurrencyIntegerFieldDescription" ->
            CurrencyIntegerFieldDescription(None, None, inst["IntegerFieldDescription"])
      [] c = "CurrencyDecimalFieldDescription" ->
            CurrencyDecimalFieldDescription(None, None, inst["DecimalFieldDescription"])
      [] c = "DateFieldDescription" -> DateFieldDescription(s_iso_date, None)
      [] c = "DatetimeFieldDescription" -> DatetimeFieldDescription(s_iso_datetime, None)
      [] c = "DecimalFieldDescription" -> DecimalFieldDescription(None, s_dot)
      [] c = "FloatFieldDescription" -> FloatFieldDescription(None, s_dot)
      [] c = "IntegerFieldDescription" -> IntegerFieldDescription(None)
      [] c = "PercentageDecimalFieldDescription" ->
            PercentageDecimalFieldDescription(Some(FALSE), Some(s_percent),
                                              inst["DecimalFieldDescription"])
      [] c = "PercentageFloatFieldDescription" ->
            PercentageFloatFieldDescription(Some(FALSE), Some(s_percent),
                                            inst["FloatFieldDescription"])
      [] OTHER -> TextFieldDescription

\* The class whose INSTANCE the dict of data_type_to_field_description holds
\* under key data_type.
RegistryClass(data_type) ==
    CASE data_type = "BOOLEAN" -> "BooleanFieldDescription"
      [] data_type = "CURRENCY_INTEGER" -> "CurrencyIntegerFieldDescription"
      [] data_type = "CURRENCY_DECIMAL" -> "CurrencyDecimalFieldDescription"
      [] data_type = "DATE" -> "DateFieldDescription"
      [] data_type = "DATETIME" -> "DatetimeFieldDescription"
      [] data_type = "DECIMAL" -> "DecimalFieldDescription"
      [] data_type = "FLOAT" -> "FloatFieldDescription"
      [] data_type = "INTEGER" -> "IntegerFieldDescription"
      [] data_type = "PERCENTAGE_DECIMAL" -> "PercentageDecimalFieldDescription"
      [] data_type = "PERCENTAGE_FLOAT" -> "PercentageFloatFieldDescription"
      [] data_type = "TEXT" -> "TextFieldDescription"

RegistryKeys ==
    {"BOOLEAN", "CURRENCY_INTEGER", "CURRENCY_DECIMAL", "DATE", "DATETIME",
     "DECIMAL", "FLOAT", "INTEGER", "PERCENTAGE_DECIMAL", "PERCENTAGE_FLOAT",
     "TEXT"}

\* A lookup by subscript instead of dict.get: an unknown key raises KeyError.
data_type_to_field_description_by_subscript(inst, data_type) ==
    IF data_type \in RegistryKeys
    THEN Return(inst[RegistryClass(data_type)])
    ELSE Raise("KeyError")

\* A registry whose FLOAT entry holds the Decimal default.
data_type_to_field_description_float_as_decimal(inst, data_type) ==
    IF data_type \in RegistryKeys
    THEN Return(inst[RegistryClass(IF data_type = "FLOAT" THEN "DECIMAL" ELSE data_type)])
    ELSE Return(inst["TextFieldDescription"])

\* dict.get(data_type, TextFieldDescription.INSTANCE) on the dict built from the
\* class attributes inst: a reference (Optional id).
data_type_to_field_description(inst, data_type) ==
    IF data_type \in RegistryKeys
    THEN Return(inst[RegistryClass(data_type)])
    ELSE Return(inst["TextFieldDescription"])

---------------------------------------------------------------------------
(* Module initialisation *)

\* The class statements leave every INSTANCE at None.
ClassesDefined == [instance |-> [c \in Classes |-> None], heap |-> << >>]

\* The k-th assignment `C.INSTANCE = C(...)`: allocate the object, then bind it.
Assign(k, st) ==
    LET c == CanonicalOrder[k]
        obj == CanonicalForm(c, st.instance)
    IN [instance |-> [st.instance EXCEPT ![c] = Some(Len(st.heap) + 1)],
        heap |-> Append(st.heap, obj)]

RECURSIVE RunTo(_)
RunTo(k) == IF k = 0 THEN ClassesDefined ELSE Assign(k, RunTo(k - 1))

\* The state once the module is imported.
Imported == RunTo(Len(CanonicalOrder))

---------------------------------------------------------------------------
(* Inputs *)

MaxNew == 1             \* descriptions a client constructs besides the canonical ones

TrueWords == {s_true}
FalseWords == {s_empty, s_false}
ThousandSeps == {None, Some(s_empty), Some(s_comma)}
DecimalSeps == {s_dot, s_comma}
CurrencyPres == {None, Some(TRUE), Some(FALSE)}
Currencies == {None, Some(s_dollar)}
PercentagePres == {Some(TRUE), Some(FALSE)}
Signs == {None, Some(s_percent)}
DateFormats == {s_iso_date}
DatetimeFormats == {s_iso_datetime}
LocaleNames == {None, Some(s_fr)}
NullValues == {s_empty, s_null}
UnknownDataTypes == {"UNKNOWN", "text"}

Ids(h) == 1..Len(h)
RefsTo(h, c) == {Some(i) : i \in {j \in Ids(h) : h[j].cls = c}}

NoCall == [op |-> "none"]
NoData == [null_value |-> s_empty, encoding |-> "utf-8", bom |-> FALSE,
           field_description_by_index |-> << >>]

---------------------------------------------------------------------------
(* The state machine of field_descriptions.py *)

NoMeta == [state |-> "unopened", written |-> << >>, path |-> None]

WriterVars == <<data, wpc, dest, processors, written, meta, csvfile>>

Init ==
    /\ pc = 1
    /\ instance = ClassesDefined.instance
    /\ heap = ClassesDefined.heap
    /\ call = NoCall
    /\ ret = Return(None)
    /\ out = s_empty
    /\ data = NoData
    /\ wpc = "none"
    /\ dest = None
    /\ processors = << >>
    /\ written = << >>
    /\ meta = NoMeta
    /\ csvfile = "unopened"

\* One of the assignments of lines 372-387.
ModuleStatement ==
    /\ pc < Done
    /\ LET st == Assign(pc, [instance |-> instance, heap |-> heap])
       IN /\ instance' = st.instance
          /\ heap' = st.heap
    /\ pc' = pc + 1
    /\ UNCHANGED <<call, ret, out, WriterVars>>

\* A client calls data_type_to_field_description(data_type).
Lookup(data_type) ==
    /\ pc = Done
    /\ call' = [op |-> "data_type_to_field_description", data_type |-> data_type]
    /\ ret' = data_type_to_field_description(instance, data_type)
    /\ out' = s_empty
    /\ UNCHANGED <<pc, instance, heap, WriterVars>>

\* A client calls heap[id].render(out) on a fresh stream.
Render(id) ==
    /\ pc = Done
    /\ LET o == FieldDescription_render(heap, Some(id), Stream(s_empty))
       IN /\ out' = o.text
          /\ ret' = IF o.raised THEN Raise("AttributeError") ELSE Return(None)
    /\ call' = [op |-> "render", self |-> id]
    /\ UNCHANGED <<pc, instance, heap, WriterVars>>

\* A client calls heap[id].to_field_processor(null_value).
ToFieldProcessor(id, null_value) ==
    /\ pc = Done
    /\ call' = [op |-> "to_field_processor", self |-> id, null_value |-> null_value]
    /\ LET r == FieldDescription_to_field_processor(heap, Some(id), null_value)
       IN ret' = IF r.raised THEN r ELSE [raised |-> FALSE, processor |-> r.value]
    /\ out' = s_empty
    /\ UNCHANGED <<pc, instance, heap, WriterVars>>

GetDataType(id) ==
    /\ pc = Done
    /\ call' = [op |-> "get_data_type", self |-> id]
    /\ ret' = [raised |-> FALSE, data_type |-> get_data_type(heap[id])]
    /\ out' = s_empty
    /\ UNCHANGED <<pc, instance, heap, WriterVars>>

GetPythonType(id) ==
    /\ pc = Done
    /\ call' = [op |-> "get_python_type", self |-> id]
    /\ ret' = [raised |-> FALSE, type |-> get_python_type(heap[id])]
    /\ out' = s_empty
    /\ UNCHANGED <<pc, instance, heap, WriterVars>>

\* A client constructs a description: __init__ stores its arguments.
New(obj) ==
    /\ pc = Done
    /\ Len(heap) < Len(CanonicalOrder) + MaxNew
    /\ heap' = Append(heap, obj)
    /\ call' = [op |-> "__init__", cls |-> obj.cls]
    /\ ret' = Return(Some(Len(heap) + 1))
    /\ out' = s_empty
    /\ UNCHANGED <<pc, instance, WriterVars>>

NewBoolean ==
    \E t \in TrueWords, f \in FalseWords : New(BooleanFieldDescription(t, f))
NewCurrencyDecimal ==
    \E p \in CurrencyPres, c \in Currencies,
       d \in RefsTo(heap, "DecimalFieldDescription") :
        New(CurrencyDecimalFieldDescription(p, c, d))
NewCurrencyInteger ==
    \E p \in CurrencyPres, c \in Currencies,
       d \in RefsTo(heap, "IntegerFieldDescription") :
        New(CurrencyIntegerFieldDescription(p, c, d))
NewDate ==
    \E f \in DateFormats, l \in LocaleNames : New(DateFieldDescription(f, l))
NewDatetime ==
    \E f \in DatetimeFormats, l \in LocaleNames : New(DatetimeFieldDescription(f, l))
NewDecimal ==
    \E t \in ThousandSeps, d \in DecimalSeps : New(DecimalFieldDescription(t, d))
NewFloat ==
    \E t \in ThousandSeps, d \in DecimalSeps : New(FloatFieldDescription(t, d))
NewInteger ==
    \E t \in ThousandSeps : New(IntegerFieldDescription(t))
NewPercentageFloat ==
    \E p \in PercentagePres, s \in Signs,
       d \in RefsTo(heap, "FloatFieldDescription") :
        New(PercentageFloatFieldDescription(p, s, d))
NewPercentageDecimal ==
    \E p \in PercentagePres, s \in Signs,
       d \in RefsTo(heap, "DecimalFieldDescription") :
        New(PercentageDecimalFieldDescription(p, s, d))
NewText == New(TextFieldDescription)

Next ==
    \/ ModuleStatement
    \/ \E dt \in DataTypes \cup UnknownDataTypes : Lookup(dt)
    \/ \E id \in Ids(heap) : Render(id)
    \/ \E id \in Ids(heap), nv \in NullValues : ToFieldProcessor(id, nv)
    \/ \E id \in Ids(heap) : GetDataType(id)
    \/ \E id \in Ids(heap) : GetPythonType(id)
    \/ NewBoolean
    \/ NewCurrencyDecimal
    \/ NewCurrencyInteger
    \/ NewDate
    \/ NewDatetime
    \/ NewDecimal
    \/ NewFloat
    \/ NewInteger
    \/ NewPercentageFloat
    \/ NewPercentageDecimal
    \/ NewText

Spec == Init /\ [][Next]_vars

---------------------------------------------------------------------------
(* Claims about the canonical registry *)

Lookups == {"data_type_to_field_description"}
IsLookup == call.op \in Lookups

\* The description the registry returns for data_type, as a reference.
Default(data_type) == data_type_to_field_description(instance, data_type)

\* The class of the numeric description a composite default is meant to wrap.
NumericClassOf(data_type) ==
    CASE data_type = "CURRENCY_INTEGER" -> "IntegerFieldDescription"
      [] data_type = "PERCENTAGE_FLOAT" -> "FloatFieldDescription"
      [] OTHER -> "DecimalFieldDescription"

CompositeDataTypes ==
    {"CURRENCY_INTEGER", "CURRENCY_DECIMAL", "PERCENTAGE_FLOAT", "PERCENTAGE_DECIMAL"}

\* C1: once the module is initialised, the default of every DataType is fully
\* constructed: it exists, a composite default wraps the (non-null) canonical
\* default of its numeric variant, and neither render nor to_field_processor
\* fails on it.
C1_DefaultsFullyConstructed ==
    pc = Done =>
        \A dt \in DataTypes :
            LET r == Default(dt) IN
            /\ ~r.raised
            /\ r.value # None
            /\ dt \in CompositeDataTypes =>
                  /\ Wrapped(heap[Get(r.value)]) # None
                  /\ Wrapped(heap[Get(r.value)]) = instance[NumericClassOf(dt)]
            /\ ~FieldDescription_render(heap, r.value, Stream(s_empty)).raised
            /\ \A nv \in NullValues :
                  ~FieldDescription_to_field_processor(heap, r.value, nv).raised

\* C2: data_type_to_field_description never raises, and for an argument that
\* is none of the 11 DataType values it returns TextFieldDescription.INSTANCE,
\* an existing description whose get_data_type() is TEXT.
C2_UnknownFallsBackToText ==
    IsLookup =>
        /\ ~ret.raised
        /\ call.data_type \notin DataTypes =>
              /\ ret.value = instance["TextFieldDescription"]
              /\ ret.value # None
              /\ heap[Get(ret.value)].cls = "TextFieldDescription"
              /\ get_data_type(heap[Get(ret.value)]) = "TEXT"

C2_Witness ==
    /\ IsLookup
    /\ call.data_type \in UnknownDataTypes
    /\ ~ret.raised
    /\ ret.value = instance["TextFieldDescription"]

C3_Registry ==
    pc = Done =>
        /\ \A dt \in DataTypes :
              /\ ~Default(dt).raised
              /\ Default(dt).value # None
              /\ Default(dt).value = instance[RegistryClass(dt)]
              /\ get_data_type(heap[Get(Default(dt).value)]) = dt
        /\ \A d1, d2 \in DataTypes : d1 # d2 => Default(d1).value # Default(d2).value
        /\ (IsLookup /\ call.data_type \in DataTypes) => ret = Default(call.data_type)

C3_Step ==
    pc = Done =>
        /\ instance' = instance
        /\ \A i \in Ids(heap) : i \in Ids(heap') /\ heap'[i] = heap[i]
        /\ (call'.op \in Lookups) => heap' = heap

\* C3: for every DataType dt the registry returns the canonical default of the
\* variant of dt: its get_data_type() is dt, distinct DataTypes have distinct
\* defaults, every call returns the one instance bound at initialisation (the
\* bindings and the objects never change afterwards), and a lookup creates no
\* description.
C3_CanonicalDefaults == []C3_Registry /\ [][C3_Step]_vars

C3_Witness ==
    /\ IsLookup
    /\ call.data_type = "PERCENTAGE_FLOAT"
    /\ ~ret.raised
    /\ ret.value # None
    /\ get_data_type(heap[Get(ret.value)]) = "PERCENTAGE_FLOAT"
    /\ Len(heap) > Len(CanonicalOrder)

---------------------------------------------------------------------------
(* The canonical notation: the grammar of the sidecar format and its reading *)

\* str.split(sep) for a one-character sep.
RECURSIVE split(_, _)
split(text, sep) ==
    IF \A i \in 1..Len(text) : text[i] # sep
    THEN <<text>>
    ELSE LET i == CHOOSE k \in 1..Len(text) :
                      text[k] = sep /\ \A j \in 1..(k - 1) : text[j] # sep
         IN <<SubSeq(text, 1, i - 1)>> \o split(SubSeq(text, i + 1, Len(text)), sep)

Segments(text) == split(text, "/")

\* numeric-type ::= "integer" ["/" sep] | "float" "/" sep "/" decsep
\*                | "decimal" "/" sep "/" decsep
NumericType(segs) ==
    /\ Len(segs) >= 1
    /\ \/ segs[1] = s_integer /\ Len(segs) \in {1, 2}
       \/ segs[1] \in {s_float, s_decimal} /\ Len(segs) = 3

\* type ::= ... : whether the segments form a sentence of the grammar.
Sentence(segs) ==
    /\ Len(segs) >= 1
    /\ \/ segs = <<s_text>>
       \/ segs[1] = s_boolean /\ Len(segs) \in {1, 3}
       \/ NumericType(segs)
       \/ /\ segs[1] \in {s_currency, s_percentage}
          /\ Len(segs) >= 4
          /\ segs[2] \in {s_pre, s_post}
          /\ NumericType(SubSeq(segs, 4, Len(segs)))
       \/ segs[1] \in {s_date, s_datetime} /\ Len(segs) \in {2, 3}

\* Descriptions as values, optionals canonicalised: an omitted or empty
\* optional string is "", an omitted side is post.
Unreadable == [variant |-> "unreadable"]
Absent == [variant |-> "absent"]

Segment(segs, i) == IF i <= Len(segs) THEN segs[i] ELSE s_empty

ParseNumeric(segs) ==
    IF segs[1] = s_integer
    THEN [variant |-> "INTEGER", thousand_sep |-> Segment(segs, 2)]
    ELSE [variant |-> IF segs[1] = s_float THEN "FLOAT" ELSE "DECIMAL",
          thousand_sep |-> segs[2], decimal_sep |-> segs[3]]

Parse(segs) ==
    IF ~Sentence(segs) THEN Unreadable
    ELSE IF segs[1] = s_text THEN [variant |-> "TEXT"]
    ELSE IF segs[1] = s_boolean
    THEN [variant |-> "BOOLEAN",
          true_word |-> IF Len(segs) = 1 THEN s_true ELSE segs[2],
          false_word |-> IF Len(segs) = 1 THEN s_false ELSE segs[3]]
    ELSE IF segs[1] \in {s_date, s_datetime}
    THEN [variant |-> IF segs[1] = s_date THEN "DATE" ELSE "DATETIME",
          date_format |-> segs[2], locale_name |-> Segment(segs, 3)]
    ELSE IF segs[1] \in {s_currency, s_percentage}
    THEN LET wrapped == ParseNumeric(SubSeq(segs, 4, Len(segs)))
             variant == IF segs[1] = s_currency
                        THEN "CURRENCY_" \o wrapped.variant
                        ELSE "PERCENTAGE_" \o wrapped.variant
         IN IF variant \notin DataTypes THEN Unreadable
            ELSE [variant |-> variant, pre |-> segs[2] = s_pre,
                  affix |-> segs[3], wrapped |-> wrapped]
    ELSE ParseNumeric(segs)

\* The same value for a description of the heap.
RECURSIVE Canonical(_, _)
Canonical(h, ref) ==
    IF ref = None THEN Absent
    ELSE LET self == h[Get(ref)]
             variant == get_data_type(self)
         IN CASE variant = "TEXT" -> [variant |-> variant]
              [] variant = "BOOLEAN" ->
                    [variant |-> variant, true_word |-> self._true_word,
                     false_word |-> self._false_word]
              [] variant = "INTEGER" ->
                    [variant |-> variant,
                     thousand_sep |-> none_to_empty(self._thousand_sep)]
              [] variant \in {"FLOAT", "DECIMAL"} ->
                    [variant |-> variant,
                     thousand_sep |-> none_to_empty(self._thousand_sep),
                     decimal_sep |-> self._decimal_sep]
              [] variant \in {"DATE", "DATETIME"} ->
                    [variant |-> variant, date_format |-> self._date_format,
                     locale_name |-> none_to_empty(self._locale_name)]
              [] variant \in {"CURRENCY_INTEGER", "CURRENCY_DECIMAL"} ->
                    [variant |-> variant, pre |-> Truthy(self._pre),
                     affix |-> none_to_empty(self._currency),
                     wrapped |-> Canonical(h, Wrapped(self))]
              [] OTHER ->
                    [variant |-> variant, pre |-> Truthy(self._pre),
                     affix |-> none_to_empty(self._sign),
                     wrapped |-> Canonical(h, Wrapped(self))]

---------------------------------------------------------------------------
(* Claims about render *)

IsRender == call.op = "render"

\* C4: rendering a description and reading the notation back by the grammar
\* yields an equivalent description (same DataType, same effective parameters
\* once omitted optionals are canonicalised), whatever the variant and its
\* parameters.
C4_RoundTrip ==
    IsRender =>
        /\ ~ret.raised
        /\ Parse(Segments(out)) = Canonical(heap, Some(call.self))

s_currency_post_dollar_decimal ==
    <<"c", "u", "r", "r", "e", "n", "c", "y", "/", "p", "o", "s", "t", "/", "$", "/",
      "d", "e", "c", "i", "m", "a", "l", "/", "/", ".">>
s_percentage_post_percent_float ==
    <<"p", "e", "r", "c", "e", "n", "t", "a", "g", "e", "/", "p", "o", "s", "t", "/",
      "%", "/", "f", "l", "o", "a", "t", "/", "/", ".">>

\* The prefix segments of a composite: its name, its side and its symbol or sign.
Keyword(self) == IF IsCurrency(self) THEN s_currency ELSE s_percentage
Side(self) == IF self._pre = Some(TRUE) THEN s_pre ELSE s_post
Affix(self) == IF IsCurrency(self) THEN self._currency ELSE self._sign
AffixText(self) == IF Affix(self) = None THEN s_empty ELSE Get(Affix(self))

\* What the render of the wrapped description writes on a stream of its own
\* (nothing when there is no wrapped description).
WrappedText(h, self) == FieldDescription_render(h, Wrapped(self), Stream(s_empty)).text

IsTheCurrencyExample(h, self) ==
    /\ self.cls = "CurrencyDecimalFieldDescription"
    /\ self._pre = Some(FALSE)
    /\ self._currency = Some(s_dollar)
    /\ self._decimal_description # None
    /\ h[Get(self._decimal_description)]._thousand_sep = None
    /\ h[Get(self._decimal_description)]._decimal_sep = s_dot

\* C5: a Currency or Percentage description renders as "currency" or
\* "percentage", "/", its side ("pre"/"post"), "/", its symbol or sign, then
\* one "/", then exactly what the render of its wrapped description writes;
\* CurrencyDecimal(False, "$", Decimal(None, ".")) renders as
\* currency/post/$/decimal//. and the default PercentageFloat as
\* percentage/post/%/float//.
C5_CompositeRendering ==
    IsRender =>
        LET self == heap[call.self] IN
        /\ IsComposite(self) =>
              out = Keyword(self) \o s_slash \o Side(self) \o s_slash
                      \o AffixText(self) \o s_slash \o WrappedText(heap, self)
        /\ IsTheCurrencyExample(heap, self) =>
              ~ret.raised /\ out = s_currency_post_dollar_decimal
        /\ Some(call.self) = instance["PercentageFloatFieldDescription"] =>
              ~ret.raised /\ out = s_percentage_post_percent_float

C5_Witness ==
    /\ IsRender
    /\ IsTheCurrencyExample(heap, heap[call.self])
    /\ out = s_currency_post_dollar_decimal

\* C6: an absent (None) optional parameter that is followed by further
\* segments is rendered as a zero-length segment in its position: the thousand
\* separator of Float and Decimal (segment 2), the pre/post flag (segment 2)
\* and the symbol (segment 3) of a Currency, the sign (segment 3) of a
\* Percentage.
C6_AbsentOptionalIsEmptySegment ==
    IsRender =>
        LET self == heap[call.self]
            segs == Segments(out)
        IN
        /\ (self.cls \in {"FloatFieldDescription", "DecimalFieldDescription"}
              /\ self._thousand_sep = None) =>
              Len(segs) = 3 /\ segs[2] = s_empty
        /\ IsCurrency(self) =>
              /\ Len(segs) >= 4
              /\ self._pre = None => segs[2] = s_empty
              /\ self._currency = None => segs[3] = s_empty
        /\ (IsPercentage(self) /\ self._sign = None) =>
              Len(segs) >= 4 /\ segs[3] = s_empty

\* C7: no Float or Decimal description exists whose decimal separator equals
\* its thousand separator: the constructor rejects such parameters.
C7_ContradictoryRejected ==
    \A i \in Ids(heap) :
        heap[i].cls \in {"FloatFieldDescription", "DecimalFieldDescription"} =>
            heap[i]._thousand_sep # Some(heap[i]._decimal_sep)

\* C9: what render writes is a sentence of the canonical notation grammar,
\* for every description.
C9_RenderIsSentence ==
    IsRender => ~ret.raised /\ Sentence(Segments(out))

---------------------------------------------------------------------------
(* Claims about to_field_processor *)

IsToFieldProcessor == call.op = "to_field_processor"
ReadOnlyCalls == {"to_field_processor", "render", "get_data_type", "get_python_type"}
CompositeProcessors == {"CurrencyFieldProcessor", "PercentageFieldProcessor"}

\* The processor carries the parameters of the description it was built from.
BoundTo(processor, self) ==
    CASE self.cls = "BooleanFieldDescription" ->
            /\ processor.cls = "BooleanFieldProcessor"
            /\ processor.true_word = self._true_word
            /\ processor.false_word = self._false_word
      [] self.cls = "IntegerFieldDescription" ->
            /\ processor.cls = "IntegerFieldProcessor"
            /\ processor.thousand_sep = self._thousand_sep
      [] self.cls \in {"FloatFieldDescription", "DecimalFieldDescription"} ->
            /\ processor.cls = IF self.cls = "FloatFieldDescription"
                               THEN "FloatFieldProcessor" ELSE "DecimalFieldProcessor"
            /\ processor.thousand_sep = self._thousand_sep
            /\ processor.decimal_sep = self._decimal_sep
      [] self.cls \in {"DateFieldDescription", "DatetimeFieldDescription"} ->
            /\ processor.cls = "DateAndDatetimeFieldProcessor"
            /\ processor.date_format = self._date_format
            /\ processor.locale_name = self._locale_name
      [] IsCurrency(self) ->
            /\ processor.cls = "CurrencyFieldProcessor"
            /\ processor.pre = self._pre
            /\ processor.currency = self._currency
      [] IsPercentage(self) ->
            /\ processor.cls = "PercentageFieldProcessor"
            /\ processor.pre = self._pre
            /\ processor.sign = self._sign
      [] OTHER -> processor.cls = "TextFieldProcessor"

C8_Bound ==
    (IsToFieldProcessor /\ ~ret.raised) =>
        LET self == heap[call.self] IN
        /\ ret.processor.null_value = call.null_value
        /\ BoundTo(ret.processor, self)
        /\ IsComposite(self) =>
              /\ ret.processor.cls \in CompositeProcessors
              /\ ret.processor.processor.null_value = call.null_value
              /\ BoundTo(ret.processor.processor, heap[Get(Wrapped(self))])

C8_Frame ==
    /\ \A i \in Ids(heap) : i \in Ids(heap') /\ heap'[i] = heap[i]
    /\ call'.op \in ReadOnlyCalls => heap' = heap /\ instance' = instance

\* C8: to_field_processor, render, get_data_type and get_python_type leave
\* every description (and the wrapped ones) as it was, whatever the sequence of
\* calls; the processor returned is built from the description's parameters
\* and bound to the null_value passed in, and the wrapped processor of a
\* Currency or Percentage is built with that same null_value.
C8_NoMutation == []C8_Bound /\ [][C8_Frame]_vars

C8_Witness ==
    /\ IsToFieldProcessor
    /\ call.null_value = s_null
    /\ heap[call.self].cls = "PercentageDecimalFieldDescription"
    /\ call.self > Len(CanonicalOrder)
    /\ ~ret.raised
    /\ ret.processor.processor.null_value = s_null

---------------------------------------------------------------------------
(* writer.py: MetaCSVWriterFactory and MetaCSVWriter *)

MaxColumns == 2         \* column indexes a MetaCSVData may describe: 0..MaxColumns-1
MaxRowLen == 2          \* longest row a client writes
MaxWritten == 1         \* rows handed to the csv writer before the client stops

CellValues == {[object |-> "a"], [object |-> "b"]}
Encodings == {"utf-8", "latin-1"}
PathKinds == {"str", "TextIO", "BinaryIO", "int"}

\* Formatting by objects that writer.py only calls: processor.to_string(value)
\* and str(value) are kept as the pair of what formats and what is formatted.
to_string(processor, value) ==
    [by |-> "to_string", processor |-> processor, value |-> value]
str(value) == [by |-> "str", value |-> value]

MetaCSVWriterFactory_get_encoding(d) ==
    IF d.encoding = "utf-8" /\ d.bom THEN "utf-8-sig" ELSE d.encoding

MetaCSVWriterFactory_get_dest(d, path) ==
    LET encoding == MetaCSVWriterFactory_get_encoding(d) IN
    CASE path = "str" -> Return([io |-> "open", encoding |-> encoding])
      [] path = "TextIO" -> Return([io |-> "TextIO", encoding |-> "given"])
      [] path = "BinaryIO" -> Return([io |-> "TextIOWrapper", encoding |-> encoding])
      [] OTHER -> Raise("ValueError")

\* The processors dict of _get_map_row: one processor per described column,
\* each built with the null value of the data; building any of them may raise.
MetaCSVWriterFactory_processors(h, d) ==
    LET built == [i \in DOMAIN d.field_description_by_index |->
                    FieldDescription_to_field_processor(
                        h, d.field_description_by_index[i], d.null_value)]
    IN IF \E i \in DOMAIN built : built[i].raised
       THEN Raise("AttributeError")
       ELSE Return([i \in DOMAIN built |-> built[i].value])

\* enumerate(row) counts from 0; Python index i is position i + 1 here.
map_row_first_processor(procs, row) ==
    [k \in 1..Len(row) |->
        IF (k - 1) \in DOMAIN procs
        THEN to_string(procs[CHOOSE i \in DOMAIN procs : \A j \in DOMAIN procs : i <= j],
                       row[k])
        ELSE str(row[k])]

map_row(procs, row) ==
    [k \in 1..Len(row) |->
        IF (k - 1) \in DOMAIN procs
        THEN to_string(procs[k - 1], row[k])
        ELSE str(row[k])]

ColumnIndexes == 0..(MaxColumns - 1)

\* The descriptions a MetaCSVData gives its columns: canonical defaults.
ColumnDescriptions ==
    {Imported.instance[c] :
        c \in {"IntegerFieldDescription", "PercentageFloatFieldDescription",
               "CurrencyIntegerFieldDescription"}}

MetaCSVDatas ==
    UNION {[null_value : NullValues, encoding : Encodings, bom : BOOLEAN,
            field_description_by_index : [S -> ColumnDescriptions]] :
           S \in SUBSET ColumnIndexes}

Rows == UNION {[1..n -> CellValues] : n \in 0..MaxRowLen}

InitWriter ==
    /\ pc = Done
    /\ instance = Imported.instance
    /\ heap = Imported.heap
    /\ call = NoCall
    /\ ret = Return(None)
    /\ out = s_empty
    /\ data = NoData
    /\ wpc = "start"
    /\ dest = None
    /\ processors = << >>
    /\ written = << >>
    /\ meta = NoMeta
    /\ csvfile = "unopened"

DescriptionVars == <<pc, instance, heap, ret, out>>

\* MetaCSVWriterFactory(data)
Factory(d) ==
    /\ wpc = "start"
    /\ data' = d
    /\ wpc' = "factory"
    /\ call' = [op |-> "MetaCSVWriterFactory"]
    /\ UNCHANGED <<DescriptionVars, dest, processors, written, meta, csvfile>>

\* factory.writer(path): _get_dest, csv.writer, _get_map_row, MetaCSVWriter.
Writer(path) ==
    /\ wpc = "factory"
    /\ call' = [op |-> "writer", path |-> path]
    /\ LET d == MetaCSVWriterFactory_get_dest(data, path)
           p == MetaCSVWriterFactory_processors(heap, data)
       IN IF d.raised
          THEN wpc' = d.error /\ UNCHANGED <<dest, processors>>
          ELSE IF p.raised
          THEN wpc' = p.error /\ dest' = Some(d.value) /\ UNCHANGED processors
          ELSE wpc' = "writer" /\ dest' = Some(d.value) /\ processors' = p.value
    /\ UNCHANGED <<DescriptionVars, data, written, meta, csvfile>>

\* writer.writeheader(row)
WriteHeader(row) ==
    /\ wpc = "writer"
    /\ Len(written) < MaxWritten
    /\ call' = [op |-> "writeheader", row |-> row]
    /\ written' = Append(written, row)
    /\ UNCHANGED <<DescriptionVars, data, wpc, dest, processors, meta, csvfile>>

\* writer.writerow(row)
WriteRow(row) ==
    /\ wpc = "writer"
    /\ Len(written) < MaxWritten
    /\ call' = [op |-> "writerow", row |-> row]
    /\ written' = Append(written, map_row(processors, row))
    /\ UNCHANGED <<DescriptionVars, data, wpc, dest, processors, meta, csvfile>>

NextWriter ==
    \/ \E d \in MetaCSVDatas : Factory(d)
    \/ \E path \in PathKinds : Writer(path)
    \/ \E row \in Rows : WriteHeader(row)
    \/ \E row \in Rows : WriteRow(row)

SpecWriter == InitWriter /\ [][NextWriter]_vars

---------------------------------------------------------------------------
(* Claims about the writer *)

Described(i) == i \in DOMAIN data.field_description_by_index

\* The processor of column i: built from the description registered for i,
\* with the null value of the table.
ColumnProcessor(i) ==
    FieldDescription_to_field_processor(
        heap, data.field_description_by_index[i], data.null_value).value

LastWritten == written[Len(written)]

\* C10: the row writerow hands to the csv writer is as long as the input row,
\* and its cell i is input cell i formatted by the processor of the
\* description of column i, built with the table's null value, when column i
\* is described, and str(value) otherwise; writeheader hands the header row
\* over as it is.
C10_ColumnAlignment ==
    /\ call.op = "writerow" =>
          /\ Len(written) >= 1
          /\ Len(LastWritten) = Len(call.row)
          /\ \A k \in 1..Len(call.row) :
                IF Described(k - 1)
                THEN /\ LastWritten[k] = to_string(ColumnProcessor(k - 1), call.row[k])
                     /\ LastWritten[k].processor.null_value = data.null_value
                ELSE LastWritten[k] = str(call.row[k])
    /\ call.op = "writeheader" =>
          /\ Len(written) >= 1
          /\ LastWritten = call.row

C10_Witness ==
    /\ call.op = "writerow"
    /\ Len(call.row) = 2
    /\ call.row[1] # call.row[2]
    /\ Described(0) /\ Described(1)
    /\ data.field_description_by_index[0] # data.field_description_by_index[1]
    /\ data.null_value = s_null
    /\ LastWritten[2] = to_string(ColumnProcessor(1), call.row[2])

---------------------------------------------------------------------------
(* writer.py: open_csv_writer, open_dict_csv_writer and _open_writer.

   The context managers run statement by statement; wpc is the line the
   client's `with` has reached.  to_meta_path, Path.open, MetaCSVRenderer and
   open_file_like are called, not defined, by writer.py: each either does its
   work or raises, and the renderer writes the sidecar column by column, each
   description rendering itself. *)

OpenOps == {"open_csv_writer", "open_dict_csv_writer"}
MetaFiles == {None, Some("Path"), Some("str")}

\* The columns the renderer has still to write, and the next of them.
Pending ==
    DOMAIN data.field_description_by_index \ {meta.written[k].index : k \in 1..Len(meta.written)}
NextColumn == CHOOSE i \in Pending : \A j \in Pending : i <= j

InitOpen ==
    /\ pc = Done
    /\ instance = Imported.instance
    /\ heap = Imported.heap
    /\ call = NoCall
    /\ ret = Return(None)
    /\ out = s_empty
    /\ data = NoData
    /\ wpc = "client"
    /\ dest = None
    /\ processors = << >>
    /\ written = << >>
    /\ meta = NoMeta
    /\ csvfile = "unopened"

\* with open_csv_writer(file, data, meta_file) / open_dict_csv_writer(...):
\* the client enters the context manager, which enters _open_writer.
Enter(op, d, meta_file) ==
    /\ wpc = "client"
    /\ call' = [op |-> op, meta_file |-> meta_file]
    /\ data' = d
    /\ meta' = [meta EXCEPT !.path = meta_file]
    /\ wpc' = "119"
    /\ UNCHANGED <<DescriptionVars, dest, processors, written, csvfile>>

\* lines 119-120: a missing meta_file is derived from file.
ToMetaPath(ok) ==
    /\ wpc = "119"
    /\ IF meta.path # None
       THEN wpc' = "121" /\ UNCHANGED <<meta, ret>>
       ELSE IF ok
       THEN wpc' = "121" /\ meta' = [meta EXCEPT !.path = Some("Path")] /\ UNCHANGED ret
       ELSE wpc' = "ValueError" /\ ret' = Raise("ValueError") /\ UNCHANGED meta
    /\ UNCHANGED <<pc, instance, heap, out, call, data, dest, processors, written, csvfile>>

\* line 121: meta_file.open("w"); only a Path has such a method.
OpenMeta(ok) ==
    /\ wpc = "121"
    /\ IF meta.path # Some("Path")
       THEN wpc' = "AttributeError" /\ ret' = Raise("AttributeError") /\ UNCHANGED meta
       ELSE IF ok
       THEN wpc' = "122" /\ meta' = [meta EXCEPT !.state = "open"] /\ UNCHANGED ret
       ELSE wpc' = "OSError" /\ ret' = Raise("OSError") /\ UNCHANGED meta
    /\ UNCHANGED <<pc, instance, heap, out, call, data, dest, processors, written, csvfile>>

\* line 122: MetaCSVRenderer.create(meta_dest).write(data), one column at a
\* time; a failing render or a failing write leaves the `with` of line 121
\* with the exception pending.
WriteMeta(ok) ==
    /\ wpc = "122"
    /\ IF Pending = {}
       THEN wpc' = "121 exit" /\ UNCHANGED <<meta, ret, out>>
       ELSE IF ~ok
       THEN wpc' = "121 raise" /\ ret' = Raise("OSError") /\ UNCHANGED <<meta, out>>
       ELSE LET i == NextColumn
                o == FieldDescription_render(
                         heap, data.field_description_by_index[i], Stream(s_empty))
            IN /\ meta' = [meta EXCEPT
                              !.written = Append(@, [index |-> i, text |-> o.text])]
               /\ out' = o.text
               /\ IF o.raised
                  THEN wpc' = "121 raise" /\ ret' = Raise("AttributeError")
                  ELSE wpc' = "122" /\ UNCHANGED ret
    /\ UNCHANGED <<pc, instance, heap, call, data, dest, processors, written, csvfile>>

\* A variant that goes on to line 123 whatever happened in the block.
CloseMeta_and_go_on ==
    /\ wpc \in {"121 exit", "121 raise"}
    /\ meta' = [meta EXCEPT !.state = "closed"]
    /\ wpc' = "123"
    /\ UNCHANGED <<DescriptionVars, call, data, dest, processors, written, csvfile>>

\* leaving the `with` of line 121 closes the sidecar, exception or not.
CloseMeta ==
    /\ wpc \in {"121 exit", "121 raise"}
    /\ meta' = [meta EXCEPT !.state = "closed"]
    /\ wpc' = IF wpc = "121 exit" THEN "123" ELSE ret.error
    /\ UNCHANGED <<DescriptionVars, call, data, dest, processors, written, csvfile>>

\* line 123: open_file_like(file, "w", encoding=data.encoding)
OpenCsv(ok) ==
    /\ wpc = "123"
    /\ IF ok
       THEN wpc' = "124" /\ csvfile' = "open" /\ UNCHANGED ret
       ELSE wpc' = "OSError" /\ ret' = Raise("OSError") /\ UNCHANGED csvfile
    /\ UNCHANGED <<pc, instance, heap, out, call, data, dest, processors, written, meta>>

\* lines 124 and 112 / 134: _open_writer yields dest, and the writer built on
\* it by MetaCSVWriterFactory(data).writer(dest) / .dict_writer(dest, header)
\* is yielded to the client.  An exception there is thrown into _open_writer
\* at its yield, and the `with` of line 123 closes dest.
Yield ==
    /\ wpc = "124"
    /\ LET d == MetaCSVWriterFactory_get_dest(data, "TextIO")
           p == MetaCSVWriterFactory_processors(heap, data)
       IN IF d.raised \/ p.raised
          THEN /\ wpc' = IF d.raised THEN d.error ELSE p.error
               /\ ret' = IF d.raised THEN d ELSE p
               /\ csvfile' = "closed"
               /\ UNCHANGED <<dest, processors>>
          ELSE /\ wpc' = "writer"
               /\ dest' = Some(d.value)
               /\ processors' = p.value
               /\ UNCHANGED <<ret, csvfile>>
    /\ UNCHANGED <<pc, instance, heap, out, call, data, written, meta>>

\* the client's block ends: the `with` of line 123 closes dest.
Exit ==
    /\ wpc = "writer"
    /\ wpc' = "done"
    /\ csvfile' = "closed"
    /\ UNCHANGED <<DescriptionVars, call, data, dest, processors, written, meta>>

NextOpen ==
    \/ \E op \in OpenOps, d \in MetaCSVDatas, m \in MetaFiles : Enter(op, d, m)
    \/ \E ok \in BOOLEAN : ToMetaPath(ok)
    \/ \E ok \in BOOLEAN : OpenMeta(ok)
    \/ \E ok \in BOOLEAN : WriteMeta(ok)
    \/ CloseMeta
    \/ \E ok \in BOOLEAN : OpenCsv(ok)
    \/ Yield
    \/ \E row \in Rows : WriteHeader(row)
    \/ \E row \in Rows : WriteRow(row)
    \/ Exit

SpecOpen == InitOpen /\ [][NextOpen]_vars

---------------------------------------------------------------------------
(* Claims about the context managers *)

\* What a complete sidecar holds for d: every described column, in the order
\* of the indexes, with the notation its description renders.
RECURSIVE SidecarColumns(_, _, _)
SidecarColumns(h, d, todo) ==
    IF todo = {} THEN << >>
    ELSE LET i == CHOOSE k \in todo : \A j \in todo : k <= j
         IN <<[index |-> i,
               text |-> FieldDescription_render(
                            h, d.field_description_by_index[i], Stream(s_empty)).text]>>
            \o SidecarColumns(h, d, todo \ {i})

Renderable(h, d) ==
    \A i \in DOMAIN d.field_description_by_index :
        ~FieldDescription_render(h, d.field_description_by_index[i],
                                 Stream(s_empty)).raised

\* The sidecar was opened, written in full from data, and closed.
SidecarComplete ==
    /\ meta.state = "closed"
    /\ Renderable(heap, data)
    /\ meta.written = SidecarColumns(heap, data, DOMAIN data.field_description_by_index)

Entered == wpc # "client"
WriterYielded == wpc \in {"writer", "done"}
Failures == {"ValueError", "AttributeError", "OSError"}

C11_State ==
    Entered =>
        /\ csvfile # "unopened" => SidecarComplete
        /\ WriterYielded => SidecarComplete /\ csvfile # "unopened"
        /\ wpc = "writer" => csvfile = "open"
        /\ written # << >> => SidecarComplete /\ WriterYielded
        /\ (wpc \in Failures /\ ~SidecarComplete) =>
              csvfile = "unopened" /\ dest = None /\ written = << >>

C11_Step ==
    /\ (csvfile = "unopened" /\ csvfile' # "unopened") => SidecarComplete
    /\ (wpc # "writer" /\ wpc' = "writer") => SidecarComplete /\ csvfile = "open"
    /\ meta.state = "closed" => meta' = meta
    /\ written' # written => SidecarComplete /\ wpc = "writer"

\* C11: in open_csv_writer / open_dict_csv_writer the sidecar meta file is
\* opened, written in full from the MetaCSVData and closed before the CSV
\* destination is opened, and the writer is yielded only after both; no row is
\* written before the sidecar is complete, and when the sidecar fails the CSV
\* destination is never opened and no writer is yielded.
C11_SidecarBeforeCsv == []C11_State /\ [][C11_Step]_vars

C11_Witness ==
    /\ wpc = "writer"
    /\ call.op = "writerow"
    /\ csvfile = "open"
    /\ meta.state = "closed"
    /\ Len(meta.written) = 2
    /\ meta.written[1].text # meta.written[2].text
    /\ Len(written) = 1
    /\ Len(written[1]) = 2

====
